---- MODULE Spec2Model ----
(***************************************************************************)
(* Model of seashell/core/hook.py: the IPA patch pipeline (Hook.patch_ipa), *)
(* its archive guard (_safe_extract_zip), its executable-name sanitizer     *)
(* (_sanitize_executable, Hook.get_executable) and its metadata tagger      *)
(* (Hook.patch_plist).                                                      *)
(*                                                                          *)
(* A Python str is a tuple of one-character strings, so that startswith,    *)
(* endswith, `in` and + are computed character by character.  The file      *)
(* system is a function from absolute normalised paths to nodes.            *)
(***************************************************************************)
EXTENDS Integers, Sequences, FiniteSets, TLC

VARIABLES fs, hash, proc, input, calls

vars == <<fs, hash, proc, input, calls>>

----------------------------------------------------------------------------
(* Bounds of the model *)

\* longest enumerated archive member name / raw CFBundleExecutable value
MaxNameLen == 3
\* longest enumerated archive entry listing
MaxEntries == 2
\* successive patch_ipa runs on the one archive
MaxRuns == 2
\* successive patch_plist calls on the one descriptor
MaxCalls == 3

----------------------------------------------------------------------------
(* Strings *)

Sep == "/"

PayloadName == <<"P", "a", "y", "l", "o", "a", "d">>
AppSuffix == <<".", "a", "p", "p">>
InfoPlistName == <<"I", "n", "f", "o", ".", "p", "l", "i", "s", "t">>
HookedSuffix == <<".", "h", "o", "o", "k", "e", "d">>
MusselName == <<"m", "u", "s", "s", "e", "l">>
ZipSuffix == <<".", "z", "i", "p">>
ZipFormat == <<"z", "i", "p">>
Placeholder == <<"?", "?", "?", "?">>
Mode0777 == "rwxrwxrwx"

\* str.startswith
StartsWith(s, p) == Len(s) >= Len(p) /\ SubSeq(s, 1, Len(p)) = p

\* str.endswith
EndsWith(s, p) == Len(s) >= Len(p) /\ SubSeq(s, Len(s) - Len(p) + 1, Len(s)) = p

\* `sub in s` for str operands
Contains(s, sub) ==
    \E i \in 1..(Len(s) - Len(sub) + 1) : SubSeq(s, i, i + Len(sub) - 1) = sub

\* s.split('/')
RECURSIVE Split(_)
Split(s) ==
    IF \A i \in 1..Len(s) : s[i] # Sep
    THEN <<s>>
    ELSE LET i == CHOOSE k \in 1..Len(s) :
                      s[k] = Sep /\ \A j \in 1..(k - 1) : s[j] # Sep
         IN  <<SubSeq(s, 1, i - 1)>> \o Split(SubSeq(s, i + 1, Len(s)))

\* '/'.join(parts)
RECURSIVE JoinSep(_)
JoinSep(parts) ==
    IF parts = <<>> THEN <<>>
    ELSE IF Len(parts) = 1 THEN parts[1]
    ELSE parts[1] \o <<Sep>> \o JoinSep(Tail(parts))

\* os.path.join(a, b) on POSIX
PathJoin(a, b) ==
    IF StartsWith(b, <<Sep>>) THEN b
    ELSE IF a = <<>> \/ EndsWith(a, <<Sep>>) THEN a \o b
    ELSE a \o <<Sep>> \o b

\* the component stack os.path.realpath keeps while walking a path (no symlinks)
RECURSIVE Resolve(_, _)
Resolve(stack, rest) ==
    IF rest = <<>> THEN stack
    ELSE LET c == Head(rest) IN
         IF c = <<>> \/ c = <<".">> THEN Resolve(stack, Tail(rest))
         ELSE IF c = <<".", ".">>
              THEN Resolve(IF stack = <<>> THEN <<>>
                           ELSE SubSeq(stack, 1, Len(stack) - 1), Tail(rest))
              ELSE Resolve(Append(stack, c), Tail(rest))

\* os.path.realpath(p) of an absolute path in a tree without symlinks
RealPath(p) == <<Sep>> \o JoinSep(Resolve(<<>>, Split(p)))

\* os.path.dirname / os.path.basename of a normalised absolute path
DirName(p) ==
    LET c == Resolve(<<>>, Split(p))
    IN  <<Sep>> \o JoinSep(SubSeq(c, 1, Len(c) - 1))

BaseName(p) ==
    LET c == Split(p) IN c[Len(c)]

----------------------------------------------------------------------------
(* _sanitize_executable, lines 49-56 *)

\* a plist value: its type and its value spelled as a str
StrVal(s) == [ty |-> "string", v |-> s]
IntVal(s) == [ty |-> "integer", v |-> s]

\* Python truthiness (`not name`) of a plist value
Falsy(name) ==
    \/ name.ty = "string" /\ name.v = <<>>
    \/ name.ty = "integer" /\ name.v = <<"0">>

\* os.path.altsep is None on POSIX, so only os.path.sep is looked for
SanitizeNoSepCheck(name) ==
    IF Falsy(name) \/ name = StrVal(<<".">>) \/ name = StrVal(<<".", ".">>)
    THEN [err |-> "none", value |-> <<>>]
    ELSE IF name.ty # "string" THEN [err |-> "TypeError", value |-> <<>>]
    ELSE IF Contains(name.v, <<".", ".">>) THEN [err |-> "none", value |-> <<>>]
    ELSE [err |-> "none", value |-> name.v]

SanitizeExecutable(name) ==
    IF Falsy(name) \/ name = StrVal(<<".">>) \/ name = StrVal(<<".", ".">>)
    THEN [err |-> "none", value |-> <<>>]
    ELSE IF name.ty # "string" THEN [err |-> "TypeError", value |-> <<>>]
    ELSE IF Contains(name.v, <<Sep>>) THEN [err |-> "none", value |-> <<>>]
    ELSE IF Contains(name.v, <<".", ".">>) THEN [err |-> "none", value |-> <<>>]
    ELSE [err |-> "none", value |-> name.v]

----------------------------------------------------------------------------
(* The file system: absolute normalised path -> node *)

NoData == [t |-> "none"]
Bytes(b) == [t |-> "bytes", v |-> b]
PlistData(fmt, fields) == [t |-> "plist", fmt |-> fmt, fields |-> fields]
ZipData(entries) == [t |-> "zip", entries |-> entries]

\* modes a fresh directory / a fresh file get (umask 022)
DirMode == "rwxr-xr-x"
DefaultMode == "rw-r--r--"

Dir == [kind |-> "dir", mode |-> DirMode, data |-> NoData]
File(data, mode) == [kind |-> "file", mode |-> mode, data |-> data]

Exists(f, p) == p \in DOMAIN f
IsDir(f, p) == p \in DOMAIN f /\ f[p].kind = "dir"
IsFile(f, p) == p \in DOMAIN f /\ f[p].kind = "file"

\* p lies strictly beneath directory d
Under(p, d) == StartsWith(p, d \o <<Sep>>)

Put(f, p, node) == [q \in DOMAIN f \cup {p} |-> IF q = p THEN node ELSE f[q]]
Del(f, gone) == [q \in DOMAIN f \ gone |-> f[q]]
Tree(f, d) == {p \in DOMAIN f : p = d \/ Under(p, d)}

Ok(f) == [err |-> "none", fs |-> f]
Fail(e, f) == [err |-> e, fs |-> f]

\* os.listdir(d)
ListDir(f, d) == {BaseName(p) : p \in {q \in DOMAIN f : q # d /\ DirName(q) = d}}

\* os.makedirs(d)
MakeDirs(f, d) ==
    LET c == Resolve(<<>>, Split(d))
        chain == {<<Sep>> \o JoinSep(SubSeq(c, 1, k)) : k \in 1..Len(c)}
    IN  IF \E a \in chain : IsFile(f, a) THEN Fail("NotADirectoryError", f)
        ELSE Ok([q \in DOMAIN f \cup chain |-> IF q \in DOMAIN f THEN f[q] ELSE Dir])

\* shutil.move(src, dst): os.rename, into dst when dst is a directory
Move(f, src, dst) ==
    LET real_dst == IF IsDir(f, dst) THEN PathJoin(dst, BaseName(src)) ELSE dst
        moved == Tree(f, src)
        renamed(p) == real_dst \o SubSeq(p, Len(src) + 1, Len(p))
        landed == {renamed(p) : p \in moved}
    IN  IF ~Exists(f, src) THEN Fail("FileNotFoundError", f)
        ELSE IF IsDir(f, dst) /\ Exists(f, real_dst) THEN Fail("shutil.Error", f)
        ELSE IF ~IsDir(f, DirName(real_dst)) THEN Fail("FileNotFoundError", f)
        ELSE IF IsDir(f, src) /\ Exists(f, real_dst) THEN Fail("NotADirectoryError", f)
        ELSE Ok([q \in (DOMAIN f \ moved) \cup landed |->
                    IF q \in landed
                    THEN f[CHOOSE p \in moved : renamed(p) = q]
                    ELSE f[q]])

\* shutil.copy(src, dst): copyfile then copymode
Copy(f, src, dst) ==
    LET real_dst == IF IsDir(f, dst) THEN PathJoin(dst, BaseName(src)) ELSE dst
    IN  IF ~Exists(f, src) THEN Fail("FileNotFoundError", f)
        ELSE IF IsDir(f, src) THEN Fail("IsADirectoryError", f)
        ELSE IF src = real_dst THEN Fail("SameFileError", f)
        ELSE IF ~IsDir(f, DirName(real_dst)) THEN Fail("FileNotFoundError", f)
        ELSE IF IsDir(f, real_dst) THEN Fail("IsADirectoryError", f)
        ELSE Ok(Put(f, real_dst, File(f[src].data, f[src].mode)))

\* os.chmod(p, mode)
Chmod(f, p, mode) ==
    IF ~Exists(f, p) THEN Fail("FileNotFoundError", f)
    ELSE Ok([f EXCEPT ![p].mode = mode])

\* os.remove(p)
Remove(f, p) ==
    IF ~Exists(f, p) THEN Fail("FileNotFoundError", f)
    ELSE IF IsDir(f, p) THEN Fail("IsADirectoryError", f)
    ELSE Ok(Del(f, {p}))

\* TemporaryDirectory.cleanup(): shutil.rmtree(d)
RmTree(f, d) == Del(f, Tree(f, d))

----------------------------------------------------------------------------
(* _safe_extract_zip, lines 39-46 *)

\* the name components zipfile.extractall keeps of a member name
IsRealPart(c) == c # <<>> /\ c # <<".">> /\ c # <<".", ".">>

\* where zipfile.extractall puts member `name` below `dir`
ExtractTarget(dir, name) ==
    RealPath(PathJoin(dir, JoinSep(SelectSeq(Split(name), IsRealPart))))

\* zipfile's extraction of one member: parents first, then a directory or a file
ExtractMember(f, dir, member) ==
    LET target == ExtractTarget(dir, member.name)
        upper == DirName(target)
        made == IF Exists(f, upper) THEN Ok(f) ELSE MakeDirs(f, upper)
        g == made.fs
    IN  IF made.err # "none" THEN made
        ELSE IF EndsWith(member.name, <<Sep>>)
        THEN IF IsDir(g, target) THEN Ok(g)
             ELSE IF Exists(g, target) THEN Fail("FileExistsError", g)
             ELSE IF ~IsDir(g, upper) THEN Fail("NotADirectoryError", g)
             ELSE Ok(Put(g, target, Dir))
        ELSE IF IsDir(g, target) THEN Fail("IsADirectoryError", g)
             ELSE IF ~IsDir(g, upper) THEN Fail("NotADirectoryError", g)
             ELSE Ok(Put(g, target, File(member.data, DefaultMode)))

\* zf.extractall(extract_dir): the members in listing order, until one fails
RECURSIVE ExtractAll(_, _, _)
ExtractAll(f, dir, members) ==
    IF members = <<>> THEN Ok(f)
    ELSE CHOOSE result \in
            {IF one.err # "none" THEN one
             ELSE ExtractAll(one.fs, dir, Tail(members)) :
                one \in {ExtractMember(f, dir, Head(members))}} : TRUE

\* the test of line 44 on one member name
UnsafeMember(base, name) ==
    ~StartsWith(RealPath(PathJoin(base, name)), base \o <<Sep>>)

UnsafePath == "RuntimeError: Unsafe path in archive"

\* a guard that tests each member only when its turn to be written comes
RECURSIVE ExtractChecking(_, _, _)
ExtractChecking(f, dir, members) ==
    IF members = <<>> THEN Ok(f)
    ELSE IF UnsafeMember(RealPath(dir), Head(members).name) THEN Fail(UnsafePath, f)
    ELSE CHOOSE result \in
            {IF one.err # "none" THEN one
             ELSE ExtractChecking(one.fs, dir, Tail(members)) :
                one \in {ExtractMember(f, dir, Head(members))}} : TRUE

SafeExtractInterleaved(f, archive_path, extract_dir) ==
    IF ~IsFile(f, archive_path) THEN Fail("FileNotFoundError", f)
    ELSE IF f[archive_path].data.t # "zip" THEN Fail("BadZipFile", f)
    ELSE ExtractChecking(f, extract_dir, f[archive_path].data.entries)

SafeExtractZip(f, archive_path, extract_dir) ==
    LET base == RealPath(extract_dir) IN
    IF ~IsFile(f, archive_path) THEN Fail("FileNotFoundError", f)
    ELSE IF f[archive_path].data.t # "zip" THEN Fail("BadZipFile", f)
    ELSE LET namelist == f[archive_path].data.entries IN
         IF \E i \in 1..Len(namelist) : UnsafeMember(base, namelist[i].name)
         THEN Fail(UnsafePath, f)
         ELSE ExtractAll(f, extract_dir, namelist)

----------------------------------------------------------------------------
(* shutil.make_archive(base_name, 'zip', root_dir, base_dir), line 124 *)

RECURSIVE SetToSeq(_)
SetToSeq(S) ==
    IF S = {} THEN <<>>
    ELSE LET x == CHOOSE y \in S : TRUE IN <<x>> \o SetToSeq(S \ {x})

\* the member written for path p: its name relative to root_dir
ArchiveMember(f, root_dir, p) ==
    [name |-> SubSeq(p, Len(root_dir) + 2, Len(p))
                 \o (IF f[p].kind = "dir" THEN <<Sep>> ELSE <<>>),
     data |-> f[p].data,
     mode |-> f[p].mode]

\* an archive of all of root_dir rather than of base_dir alone
MakeArchiveOfRoot(f, base_name, format, root_dir, base_dir) ==
    LET walk == SetToSeq(Tree(f, root_dir) \ {root_dir})
        out == base_name \o <<".">> \o format
    IN  IF ~IsDir(f, root_dir) THEN Fail("FileNotFoundError", f)
        ELSE IF IsDir(f, out) THEN Fail("IsADirectoryError", f)
        ELSE Ok(Put(f, out,
                    File(ZipData([i \in 1..Len(walk) |->
                                     ArchiveMember(f, root_dir, walk[i])]),
                         DefaultMode)))

MakeArchive(f, base_name, format, root_dir, base_dir) ==
    LET walk == SetToSeq(Tree(f, PathJoin(root_dir, base_dir)))
        out == base_name \o <<".">> \o format
    IN  IF ~IsDir(f, PathJoin(root_dir, base_dir)) THEN Fail("FileNotFoundError", f)
        ELSE IF IsDir(f, out) THEN Fail("IsADirectoryError", f)
        ELSE Ok(Put(f, out,
                    File(ZipData([i \in 1..Len(walk) |->
                                     ArchiveMember(f, root_dir, walk[i])]),
                         DefaultMode)))

----------------------------------------------------------------------------
(* Hook.get_executable, lines 128-141, and Hook.patch_plist, lines 143-160 *)

ExecutableKey == "CFBundleExecutable"
SignatureKey == "CFBundleSignature"

\* plistlib.load: the mapping of an XML or binary property list
PlistLoad(f, p) ==
    IF ~Exists(f, p) THEN [err |-> "FileNotFoundError", plist_data |-> <<>>]
    ELSE IF IsDir(f, p) THEN [err |-> "IsADirectoryError", plist_data |-> <<>>]
    ELSE IF ~IsDir(f, DirName(p)) THEN [err |-> "NotADirectoryError", plist_data |-> <<>>]
    ELSE IF f[p].data.t # "plist"
         THEN [err |-> "InvalidFileException", plist_data |-> <<>>]
    ELSE [err |-> "none", plist_data |-> f[p].data.fields]

\* plistlib.dump(plist_data, f): always the XML format
PlistDump(f, p, plist_data) ==
    [f EXCEPT ![p].data = PlistData("xml", plist_data)]

\* a lookup that subscripts the mapping without testing for the key
GetExecutableSubscript(f, p) ==
    LET loaded == PlistLoad(f, p) IN
    IF loaded.err # "none" THEN [err |-> loaded.err, value |-> <<>>]
    ELSE IF ExecutableKey \in DOMAIN loaded.plist_data
         THEN SanitizeExecutable(loaded.plist_data[ExecutableKey])
         ELSE [err |-> "KeyError", value |-> <<>>]

GetExecutable(f, p) ==
    LET loaded == PlistLoad(f, p) IN
    IF loaded.err # "none" THEN [err |-> loaded.err, value |-> <<>>]
    ELSE IF ExecutableKey \in DOMAIN loaded.plist_data
         THEN SanitizeExecutable(loaded.plist_data[ExecutableKey])
         ELSE [err |-> "none", value |-> <<>>]

\* plist_data[key] = value
SetItem(plist_data, key, value) ==
    [k \in DOMAIN plist_data \cup {key} |->
        IF k = key THEN value ELSE plist_data[k]]

\* a tagger that only fills the signature in when there is none yet
PatchPlistKeepOld(f, p, h, revert) ==
    LET loaded == PlistLoad(f, p) IN
    IF loaded.err # "none" THEN Fail(loaded.err, f)
    ELSE IF SignatureKey \in DOMAIN loaded.plist_data
         THEN Ok(PlistDump(f, p, loaded.plist_data))
    ELSE IF ~revert
         THEN Ok(PlistDump(f, p, SetItem(loaded.plist_data, SignatureKey, StrVal(h))))
         ELSE Ok(PlistDump(f, p, SetItem(loaded.plist_data, SignatureKey,
                                         StrVal(Placeholder))))

PatchPlist(f, p, h, revert) ==
    LET loaded == PlistLoad(f, p) IN
    IF loaded.err # "none" THEN Fail(loaded.err, f)
    ELSE IF ~revert
         THEN Ok(PlistDump(f, p, SetItem(loaded.plist_data, SignatureKey, StrVal(h))))
         ELSE Ok(PlistDump(f, p, SetItem(loaded.plist_data, SignatureKey,
                                         StrVal(Placeholder))))

----------------------------------------------------------------------------
(* Hook.__init__, lines 66-82, and the state of a patch_ipa call *)

Procs == {1, 2}

\* self.data_path, self.main and self.mussel
DataPath == <<"/", "d", "/">>
MainPath == DataPath \o <<"h", "o", "o", "k">>
MusselPath == DataPath \o <<"M", "u", "s", "s", "e", "l", ".", "a", "p", "p", "/">> \o MusselName

\* the names tempfile.mkdtemp can hand out
TmpNames == {<<"/", "t">>, <<"/", "u">>}
TmpMode == "rwx------"

NoFile == [kind |-> "none", mode |-> "", data |-> NoData]
NodeAt(f, p) == IF Exists(f, p) THEN f[p] ELSE NoFile

Idle(path, limit) ==
    [pc |-> "idle", path |-> path, tmp_dir |-> <<>>, bundle |-> <<>>,
     plist_path |-> <<>>, executable |-> <<>>, err |-> "none",
     runs |-> 0, limit |-> limit,
     given |-> NoFile, plist_data |-> <<>>, steps |-> {}, reads |-> {}, writes |-> {}]

Finished(p) == proc[p].pc \in {"returned", "raised"}

\* the statement order of lines 94-125
AfterRemoveFirst(step) ==
    CASE step = "extract" -> "locate"
      [] step = "locate" -> "remove"
      [] step = "remove" -> "patch_plist"
      [] step = "patch_plist" -> "move"
      [] step = "move" -> "copy_main"
      [] step = "copy_main" -> "copy_mussel"
      [] step = "copy_mussel" -> "chmod_main"
      [] step = "chmod_main" -> "chmod_mussel"
      [] step = "chmod_mussel" -> "make_archive"
      [] step = "make_archive" -> "move_zip"
      [] step = "move_zip" -> "cleanup"

After(step) ==
    CASE step = "extract" -> "locate"
      [] step = "locate" -> "patch_plist"
      [] step = "patch_plist" -> "move"
      [] step = "move" -> "copy_main"
      [] step = "copy_main" -> "copy_mussel"
      [] step = "copy_mussel" -> "chmod_main"
      [] step = "chmod_main" -> "chmod_mussel"
      [] step = "chmod_mussel" -> "remove"
      [] step = "remove" -> "make_archive"
      [] step = "make_archive" -> "move_zip"
      [] step = "move_zip" -> "cleanup"

\* what leaving the `with` block does to the call's state: the scratch
\* directory is removed whether the block returned or raised
ExitBestEffort(f, l) ==
    [fs |-> IF l.err = "none" THEN RmTree(f, l.tmp_dir) ELSE f,
     pc |-> IF l.err = "none" THEN "returned" ELSE "raised"]

ExitWith(f, l) ==
    [fs |-> RmTree(f, l.tmp_dir),
     pc |-> IF l.err = "none" THEN "returned" ELSE "raised"]

\* a statement of the block ran with result r: on to the next one, or out
\* of the block with the exception
Advance(p, step, r, reads, writes) ==
    /\ fs' = r.fs
    /\ proc' = [proc EXCEPT ![p] =
                  IF r.err = "none"
                  THEN [@ EXCEPT !.pc = After(step),
                                 !.steps = @ \cup {step},
                                 !.reads = @ \cup reads,
                                 !.writes = @ \cup writes]
                  ELSE [@ EXCEPT !.pc = "cleanup", !.err = r.err]]
    /\ UNCHANGED <<hash, input, calls>>

\* an I/O error of the environment in place of the statement's effect
Faulty(fault, f, r) == IF fault THEN Fail("OSError", f) ELSE r

----------------------------------------------------------------------------
(* Hook.patch_ipa, lines 84-125 *)

\* line 93: tempfile.TemporaryDirectory()
Start(p) ==
    /\ proc[p].pc \in {"idle", "returned", "raised"}
    /\ proc[p].runs < proc[p].limit
    /\ \E d \in TmpNames :
          /\ ~Exists(fs, d)
          /\ fs' = Put(fs, d, [Dir EXCEPT !.mode = TmpMode])
          /\ proc' = [proc EXCEPT ![p] =
                        [Idle(@.path, @.limit) EXCEPT
                            !.pc = "extract",
                            !.tmp_dir = d,
                            !.runs = proc[p].runs + 1,
                            !.given = NodeAt(fs, proc[p].path),
                            !.reads = proc[p].reads,
                            !.writes = proc[p].writes]]
    /\ UNCHANGED <<hash, input, calls>>

\* line 94
Extract(p) ==
    /\ proc[p].pc = "extract"
    /\ Advance(p, "extract", SafeExtractZip(fs, proc[p].path, proc[p].tmp_dir),
               {proc[p].path}, {})

\* lines 95-109: the bundle and its executable, or one of the three returns
Locate(p) ==
    LET payload == PathJoin(proc[p].tmp_dir, PayloadName)
        app_files == {file \in ListDir(fs, payload) : EndsWith(file, AppSuffix)}
        Return == /\ proc' = [proc EXCEPT ![p].pc = "cleanup"]
                  /\ UNCHANGED <<fs, hash, input, calls>>
    IN
    /\ proc[p].pc = "locate"
    /\ IF ~IsDir(fs, payload) THEN Return
       ELSE IF app_files = {} THEN Return
       ELSE \E first \in app_files :
               LET bundle == PathJoin(payload, first)
                   plist_path == PathJoin(bundle, InfoPlistName)
                   executable == GetExecutable(fs, plist_path)
                   loaded == PlistLoad(fs, plist_path)
                   seen == [proc EXCEPT ![p].bundle = bundle,
                                        ![p].plist_path = plist_path,
                                        ![p].plist_data = IF loaded.err = "none"
                                                   THEN loaded.plist_data
                                                   ELSE <<>>]
               IN  /\ proc' =
                        IF executable.err # "none"
                        THEN [seen EXCEPT ![p].pc = "cleanup",
                                          ![p].err = executable.err]
                        ELSE IF executable.value = <<>>
                        THEN [seen EXCEPT ![p].pc = "cleanup"]
                        ELSE [seen EXCEPT ![p].pc = After("locate"),
                                          ![p].executable = executable.value,
                                          ![p].steps = @ \cup {"locate"}]
                   /\ UNCHANGED <<fs, hash, input, calls>>

\* patch_plist under an I/O error of the environment: in the open or load of
\* lines 151-152 (nothing is written), or in the dump of line 160, after the
\* open of line 159 has truncated the file
PatchPlistIO(fault, f, p, h, revert) ==
    IF fault = "read" THEN Fail("OSError", f)
    ELSE IF fault = "write" /\ PatchPlist(f, p, h, revert).err = "none"
         THEN Fail("OSError", [f EXCEPT ![p].data = Bytes("")])
    ELSE PatchPlist(f, p, h, revert)

\* line 111
PatchPlistStep(p) ==
    /\ proc[p].pc = "patch_plist"
    /\ \E fault \in {"none", "read", "write"} :
          Advance(p, "patch_plist",
                  PatchPlistIO(fault, fs, proc[p].plist_path, hash, FALSE),
                  {}, {})

\* lines 113-116
MoveStep(p) ==
    /\ proc[p].pc = "move"
    /\ \E fault \in BOOLEAN :
          Advance(p, "move",
                  Faulty(fault, fs,
                         Move(fs, PathJoin(proc[p].bundle, proc[p].executable),
                              PathJoin(proc[p].bundle,
                                       proc[p].executable \o HookedSuffix))),
                  {}, {})

\* line 117
CopyMain(p) ==
    /\ proc[p].pc = "copy_main"
    /\ \E fault \in BOOLEAN :
          Advance(p, "copy_main",
                  Faulty(fault, fs,
                         Copy(fs, MainPath,
                              PathJoin(proc[p].bundle, proc[p].executable))),
                  {MainPath}, {})

\* line 118
CopyMussel(p) ==
    /\ proc[p].pc = "copy_mussel"
    /\ \E fault \in BOOLEAN :
          Advance(p, "copy_mussel",
                  Faulty(fault, fs,
                         Copy(fs, MusselPath, PathJoin(proc[p].bundle, MusselName))),
                  {MusselPath}, {})

\* line 120
ChmodMain(p) ==
    /\ proc[p].pc = "chmod_main"
    /\ \E fault \in BOOLEAN :
          Advance(p, "chmod_main",
                  Faulty(fault, fs,
                         Chmod(fs, PathJoin(proc[p].bundle, proc[p].executable),
                               Mode0777)),
                  {}, {})

\* line 121
ChmodMussel(p) ==
    /\ proc[p].pc = "chmod_mussel"
    /\ \E fault \in BOOLEAN :
          Advance(p, "chmod_mussel",
                  Faulty(fault, fs,
                         Chmod(fs, PathJoin(proc[p].bundle, MusselName), Mode0777)),
                  {}, {})

\* line 123
RemoveStep(p) ==
    /\ proc[p].pc = "remove"
    /\ \E fault \in BOOLEAN :
          Advance(p, "remove", Faulty(fault, fs, Remove(fs, proc[p].path)),
                  {}, {proc[p].path})

\* line 124
MakeArchiveStep(p) ==
    /\ proc[p].pc = "make_archive"
    /\ \E fault \in BOOLEAN :
          Advance(p, "make_archive",
                  Faulty(fault, fs,
                         MakeArchive(fs, proc[p].path, ZipFormat, proc[p].tmp_dir,
                                     PayloadName)),
                  {}, {proc[p].path \o ZipSuffix})

\* line 125
MoveZip(p) ==
    /\ proc[p].pc = "move_zip"
    /\ \E fault \in BOOLEAN :
          Advance(p, "move_zip",
                  Faulty(fault, fs,
                         Move(fs, proc[p].path \o ZipSuffix, proc[p].path)),
                  {proc[p].path \o ZipSuffix},
                  {proc[p].path \o ZipSuffix, proc[p].path})

\* line 93: the end of the `with tempfile.TemporaryDirectory()` block
Cleanup(p) ==
    /\ proc[p].pc = "cleanup"
    /\ fs' = ExitWith(fs, proc[p]).fs
    /\ proc' = [proc EXCEPT ![p].pc = ExitWith(fs, proc[p]).pc]
    /\ UNCHANGED <<hash, input, calls>>

Next ==
    \E p \in Procs :
       \/ Start(p)
       \/ Extract(p)
       \/ Locate(p)
       \/ PatchPlistStep(p)
       \/ MoveStep(p)
       \/ CopyMain(p)
       \/ CopyMussel(p)
       \/ ChmodMain(p)
       \/ ChmodMussel(p)
       \/ RemoveStep(p)
       \/ MakeArchiveStep(p)
       \/ MoveZip(p)
       \/ Cleanup(p)

----------------------------------------------------------------------------
(* The archives, descriptors and file systems the calls are made on *)

StringsUpTo(alphabet, n) == UNION {[1..k -> alphabet] : k \in 0..n}

BundleX == <<"X", ".", "a", "p", "p">>
BundleY == <<"Y", ".", "a", "p", "p">>
MainName == <<"M", "a", "i", "n">>
ArtworkName == <<"A", "r", "t">>
EndpointTag == <<"d", "G", "N", "w">>
ArchivePath == <<"/", "a">>
OtherPath == <<"/", "b">>
PlistPath == <<"/", "p">>

FileEntry(name, data) == [name |-> name, data |-> data, mode |-> DefaultMode]
DirEntry(name) == [name |-> name \o <<Sep>>, data |-> NoData, mode |-> DirMode]

\* member names written out character by character over a path alphabet
ProbeNames == StringsUpTo({Sep, ".", "t"}, MaxNameLen)
FillerNames == {<<"t">>, <<".", ".", Sep, "t">>}

\* listings of up to MaxEntries members: any one name at any one place, the
\* other places taken by a harmless or by an escaping name
ProbeListings ==
    {<<>>} \cup
    UNION {UNION {{[k \in 1..n |->
                      FileEntry(IF k = i THEN name ELSE filler, Bytes("DATA"))] :
                      name \in ProbeNames, filler \in FillerNames} :
                  i \in 1..n} :
           n \in 1..MaxEntries}

\* the values of spec property P2
P2Values ==
    {<<>>, <<".">>, <<".", ".">>, <<"a", Sep, "b">>,
     <<"a", Sep, ".", ".", Sep, "b">>,
     <<".", ".", Sep, "e", "t", "c", Sep, "p", "a", "s", "s", "w", "d">>}

RawValues ==
    {StrVal(s) : s \in StringsUpTo({Sep, ".", "M"}, MaxNameLen) \cup P2Values
                       \cup {MainName}}
    \cup {IntVal(<<"0">>), IntVal(<<"5">>)}

NameField == [k \in {"CFBundleName"} |-> StrVal(<<"X">>)]
OldSignatures == {StrVal(Placeholder), StrVal(<<"O", "L", "D">>)}

\* Info.plist documents naming the executable `Main`
MainPlists ==
    {PlistData(fmt, fields) :
        fmt \in {"xml", "binary"},
        fields \in {SetItem(NameField, ExecutableKey, StrVal(MainName))}
                   \cup {SetItem(SetItem(NameField, ExecutableKey, StrVal(MainName)),
                                 SignatureKey, sig) : sig \in OldSignatures}}

\* Info.plist documents with every raw executable value, and with none
RawPlists ==
    {PlistData("xml", SetItem(NameField, ExecutableKey, raw)) : raw \in RawValues}
    \cup {PlistData("xml", NameField)}

\* Payload/<bundle>/ with its members
BundleEntries(bundle, plist, main) ==
    <<DirEntry(JoinSep(<<PayloadName, bundle>>))>>
    \o (IF plist = NoData THEN <<>>
        ELSE <<FileEntry(JoinSep(<<PayloadName, bundle, InfoPlistName>>), plist)>>)
    \o (IF main = NoData THEN <<>>
        ELSE <<FileEntry(JoinSep(<<PayloadName, bundle, MainName>>), main)>>)

BundleListings ==
    LET top == <<FileEntry(ArtworkName, Bytes("ART")), DirEntry(PayloadName)>>
        orig == Bytes("ORIG")
    IN  {top \o BundleEntries(BundleX, plist, main) :
            plist \in MainPlists, main \in {orig, NoData}}
        \cup {top \o BundleEntries(BundleX, plist, orig) :
                 plist \in RawPlists \cup {NoData, Bytes("JUNK")}}
        \cup {top \o BundleEntries(BundleX, plist, orig)
                  \o BundleEntries(BundleY, plist, Bytes("ORIG-Y")) :
                 plist \in {PlistData("xml",
                               SetItem(NameField, ExecutableKey, StrVal(MainName)))}}
        \cup {top,
              <<FileEntry(PayloadName, Bytes("DATA"))>>,
              top \o <<FileEntry(JoinSep(<<PayloadName, MainName>>), orig)>>,
              top \o <<FileEntry(JoinSep(<<PayloadName, BundleX>>), orig)>>}

Archives ==
    {ZipData(listing) : listing \in ProbeListings \cup BundleListings}
    \cup {Bytes("JUNK")}

\* the directories and the two binaries of data_path
BaseFs ==
    Put(Put(Put(Put(Put(<<>>,
        <<Sep>>, Dir),
        <<Sep, "d">>, Dir),
        DirName(MusselPath), Dir),
        MainPath, File(Bytes("HOOK"), DirMode)),
        MusselPath, File(Bytes("MUSSEL"), DirMode))

Init ==
    /\ \E archive \in Archives :
          fs = Put(BaseFs, ArchivePath, File(archive, DefaultMode))
    /\ hash \in {<<>>, EndpointTag}
    /\ proc = [p \in Procs |-> IF p = 1 THEN Idle(ArchivePath, MaxRuns)
                               ELSE Idle(OtherPath, 0)]
    /\ input = fs
    /\ calls = <<>>

Spec == Init /\ [][Next]_vars

----------------------------------------------------------------------------
(* Vocabulary of the properties *)

\* the data of member `name` of archive data `zip` (the last one of that name)
MemberData(zip, name) ==
    LET at == {i \in 1..Len(zip.entries) : zip.entries[i].name = name}
    IN  IF at = {} THEN NoData
        ELSE zip.entries[CHOOSE i \in at : \A j \in at : j <= i].data

MemberMode(zip, name) ==
    LET at == {i \in 1..Len(zip.entries) : zip.entries[i].name = name}
    IN  IF at = {} THEN ""
        ELSE zip.entries[CHOOSE i \in at : \A j \in at : j <= i].mode

IsZip(node) == node.kind = "file" /\ node.data.t = "zip"

\* Payload/<bundle>/<file>
InBundle(bundle, file) == JoinSep(<<PayloadName, bundle, file>>)

\* the path components of a resolved destination
Components(p) == Resolve(<<>>, Split(p))

\* member `name` resolves to a place that is not strictly beneath `dir`
Escapes(dir, name) ==
    LET base == Components(dir)
        dest == Components(PathJoin(dir, name))
    IN  ~(Len(dest) > Len(base) /\ SubSeq(dest, 1, Len(base)) = base)

HasEscaping(zip, dir) ==
    \E i \in 1..Len(zip.entries) : Escapes(dir, zip.entries[i].name)

\* member i of the listing is on disk beneath dir, as the kind of node it is
Materialized(f, dir, zip, i) ==
    LET target == ExtractTarget(dir, zip.entries[i].name)
        base == Components(dir)
    IN  /\ Exists(f, target)
        /\ Len(Components(target)) > Len(base)
        /\ SubSeq(Components(target), 1, Len(base)) = base
        /\ IF zip.entries[i].name[Len(zip.entries[i].name)] = Sep
           THEN f[target].kind = "dir"
           ELSE /\ f[target].kind = "file"
                /\ \E j \in i..Len(zip.entries) :
                      /\ ExtractTarget(dir, zip.entries[j].name) = target
                      /\ f[target].data = zip.entries[j].data

\* the four checks of the sanitizer, stated on the characters of the value
FailsChecks(s) ==
    \/ Len(s) = 0
    \/ s = <<".">>
    \/ s = <<".", ".">>
    \/ \E i \in 1..Len(s) : s[i] = Sep
    \/ \E i \in 1..(Len(s) - 1) : s[i] = "." /\ s[i + 1] = "."

BundleSteps ==
    {"extract", "locate", "patch_plist", "move", "copy_main", "copy_mussel",
     "chmod_main", "chmod_mussel"}

\* the call has got past the statements that locate the bundle
Located(p) == proc[p].pc \notin {"idle", "extract", "locate"}

----------------------------------------------------------------------------
(* Properties of Spec *)

\* C1: an archive with a member whose resolved destination is not strictly
\* beneath the target directory makes the extraction fail with the unsafe-path
\* error and nothing is written under the target, wherever the member sits in
\* the listing; an archive without one never gets that error, and when the
\* extraction returns every member is on disk beneath the target.
C1_Containment ==
    \A p \in Procs :
       LET l == proc[p] IN
       (l.pc \notin {"idle", "extract"} /\ IsZip(l.given)) =>
          IF HasEscaping(l.given.data, l.tmp_dir)
          THEN /\ l.err = UnsafePath
               /\ l.pc \in {"cleanup", "raised"}
               /\ l.pc = "cleanup" => Tree(fs, l.tmp_dir) = {l.tmp_dir}
          ELSE /\ l.err # UnsafePath
               /\ l.pc = "locate" =>
                     \A i \in 1..Len(l.given.data.entries) :
                        Materialized(fs, l.tmp_dir, l.given.data, i)

\* a listing of two members, the escaping one last, has been refused
C1_Witness ==
    \E p \in Procs :
       LET l == proc[p] IN
       /\ l.pc = "cleanup"
       /\ l.err = UnsafePath
       /\ IsZip(l.given)
       /\ Len(l.given.data.entries) = 2
       /\ ~Escapes(l.tmp_dir, l.given.data.entries[1].name)
       /\ Escapes(l.tmp_dir, l.given.data.entries[2].name)

\* the raw CFBundleExecutable value the call's bundle declares, if it is a str
DeclaresString(l) ==
    /\ l.bundle # <<>>
    /\ ExecutableKey \in DOMAIN l.plist_data
    /\ l.plist_data[ExecutableKey].ty = "string"

\* the archive the call was given has no Payload directory, or Payload holds
\* no entry ending in .app, or the metadata of the bundle the call settled on
\* has no CFBundleExecutable, or a value that fails one of the four checks
NoOpCase(l) ==
    LET parts == [i \in 1..Len(l.given.data.entries) |->
                     SelectSeq(Split(l.given.data.entries[i].name), IsRealPart)]
        isdir(i) == EndsWith(l.given.data.entries[i].name, <<Sep>>)
        meta == MemberData(l.given.data,
                           InBundle(BaseName(l.bundle), InfoPlistName))
    IN  \/ ~\E i \in DOMAIN parts :
               /\ Len(parts[i]) >= 1
               /\ parts[i][1] = PayloadName
               /\ Len(parts[i]) > 1 \/ isdir(i)
        \/ ~\E i \in DOMAIN parts :
               /\ Len(parts[i]) >= 2
               /\ parts[i][1] = PayloadName
               /\ EndsWith(parts[i][2], AppSuffix)
        \/ /\ l.bundle # <<>>
           /\ meta.t = "plist"
           /\ \/ ExecutableKey \notin DOMAIN meta.fields
              \/ /\ meta.fields[ExecutableKey].ty = "string"
                 /\ FailsChecks(meta.fields[ExecutableKey].v)

\* C2: a call on an archive without a Payload directory, without an .app
\* entry in Payload, without a CFBundleExecutable field, or with a value of
\* that field that fails the sanitizer's checks, returns without an error,
\* never reaches the delete or the rebuild, and leaves the archive as given.
C2_NoOpFidelity ==
    \A p \in Procs :
       LET l == proc[p] IN
       (Located(p) /\ "extract" \in l.steps /\ NoOpCase(l)) =>
          /\ l.err = "none"
          /\ l.pc \in {"cleanup", "returned"}
          /\ l.steps \cap {"remove", "make_archive", "move_zip"} = {}
          /\ NodeAt(fs, l.path) = l.given

\* a call has returned on a bundle whose metadata has no CFBundleExecutable
C2_Witness ==
    \E p \in Procs :
       LET l == proc[p] IN
       /\ l.pc = "returned"
       /\ "extract" \in l.steps
       /\ l.bundle # <<>>
       /\ MemberData(l.given.data, InBundle(BundleX, InfoPlistName)).t = "plist"
       /\ ExecutableKey \notin
             DOMAIN MemberData(l.given.data, InBundle(BundleX, InfoPlistName)).fields
       /\ NodeAt(fs, l.path) = l.given

\* C3: when every step of a call on an archive with Payload/<bundle>, whose
\* metadata names the executable Main, has succeeded, the archive at the path
\* has only members under Payload, and holds <bundle>/Main.hooked with the
\* given Main's bytes, <bundle>/Main with the replacement's bytes and
\* <bundle>/mussel with the helper's bytes, both with mode 0777, and metadata
\* whose CFBundleSignature is the endpoint tag.
C3_RoundTripSwap ==
    \A p \in Procs :
       LET l == proc[p]
           now == NodeAt(fs, l.path)
           b == BaseName(l.bundle)
       IN
       (l.pc = "returned" /\ "move_zip" \in l.steps /\ l.executable = MainName) =>
          /\ IsZip(now)
          /\ \E i \in 1..Len(now.data.entries) :
                now.data.entries[i].name = PayloadName \o <<Sep>>
          /\ \A i \in 1..Len(now.data.entries) :
                StartsWith(now.data.entries[i].name, PayloadName \o <<Sep>>)
          /\ MemberData(now.data, InBundle(b, MainName \o HookedSuffix))
                = MemberData(l.given.data, InBundle(b, MainName))
          /\ MemberData(now.data, InBundle(b, MainName)) = input[MainPath].data
          /\ MemberMode(now.data, InBundle(b, MainName)) = Mode0777
          /\ MemberData(now.data, InBundle(b, MusselName)) = input[MusselPath].data
          /\ MemberMode(now.data, InBundle(b, MusselName)) = Mode0777
          /\ MemberData(now.data, InBundle(b, InfoPlistName)).t = "plist"
          /\ SignatureKey \in
                DOMAIN MemberData(now.data, InBundle(b, InfoPlistName)).fields
          /\ MemberData(now.data, InBundle(b, InfoPlistName)).fields[SignatureKey]
                = StrVal(hash)

\* a first call has succeeded on Payload/X.app whose binary metadata carried
\* another signature, with a non-empty endpoint tag
C3_Witness ==
    \E p \in Procs :
       LET l == proc[p] IN
       /\ l.pc = "returned"
       /\ "move_zip" \in l.steps
       /\ l.runs = 1
       /\ l.executable = MainName
       /\ l.bundle = PathJoin(PathJoin(l.tmp_dir, PayloadName), BundleX)
       /\ hash = EndpointTag
       /\ IsZip(l.given)
       /\ MemberData(l.given.data, InBundle(BundleX, InfoPlistName))
             = PlistData("binary",
                         SetItem(SetItem(NameField, ExecutableKey, StrVal(MainName)),
                                 SignatureKey, StrVal(<<"O", "L", "D">>)))
       /\ MemberData(l.given.data, InBundle(BundleX, MainName)) = Bytes("ORIG")

\* C4: the archive at the path differs from the one given only after the
\* extraction, the bundle location, the tagging, the rename, both copies and
\* both chmods have succeeded; a call that fails before the deletion raises
\* to the caller and leaves the archive as given.
C4_FailureBeforeDeletion ==
    \A p \in Procs :
       LET l == proc[p] IN
       /\ (l.pc # "idle" /\ NodeAt(fs, l.path) # l.given) => BundleSteps \subseteq l.steps
       /\ "remove" \in l.steps => BundleSteps \subseteq l.steps
       /\ (l.err # "none" /\ "remove" \notin l.steps) =>
             /\ l.pc \in {"cleanup", "raised"}
             /\ NodeAt(fs, l.path) = l.given
       /\ (Finished(p) /\ l.err # "none") => l.pc = "raised"

\* a call has raised because its chmod of the helper failed, after tagging,
\* renaming and copying
C4_Witness ==
    \E p \in Procs :
       LET l == proc[p] IN
       /\ l.pc = "raised"
       /\ l.err = "OSError"
       /\ "chmod_main" \in l.steps
       /\ "chmod_mussel" \notin l.steps
       /\ IsZip(l.given)
       /\ NodeAt(fs, l.path) = l.given

\* C5: in every state of a call the archive path holds the complete archive
\* the call was given or the complete rebuilt archive, never nothing.
C5_ArchiveNeverLost ==
    \A p \in Procs :
       LET l == proc[p] IN
       l.pc # "idle" =>
          \/ NodeAt(fs, l.path) = l.given
          \/ IsZip(NodeAt(fs, l.path)) /\ "make_archive" \in l.steps

\* no path at or beneath the call's scratch directory is left
ScratchGone(p) == Tree(fs, proc[p].tmp_dir) = {}

\* the call is inside the `with` block
InBlock(p) == proc[p].pc \notin {"idle", "returned", "raised"}

\* the statements of the block in the order a call goes through them
Rank(pc) ==
    CASE pc = "extract" -> 1
      [] pc = "locate" -> 2
      [] pc = "patch_plist" -> 3
      [] pc = "move" -> 4
      [] pc = "copy_main" -> 5
      [] pc = "copy_mussel" -> 6
      [] pc = "chmod_main" -> 7
      [] pc = "chmod_mussel" -> 8
      [] pc = "remove" -> 9
      [] pc = "make_archive" -> 10
      [] pc = "move_zip" -> 11
      [] pc = "cleanup" -> 12
      [] OTHER -> 13

\* a step of a call inside the block takes it strictly nearer to the exit
StepsForward ==
    \A p \in Procs :
       (InBlock(p) /\ proc'[p] # proc[p]) => Rank(proc'[p].pc) > Rank(proc[p].pc)

\* C6: whenever a call has returned or raised, whichever way it left the
\* block, its scratch directory is gone; inside the block the scratch
\* directory exists and every step takes the call nearer to the exit; and a
\* call that leaves the block, with or without an exception, eventually has
\* returned or raised with the scratch directory removed.
C6_ScratchCleanup ==
    /\ [](\A p \in Procs : Finished(p) => ScratchGone(p))
    /\ [](\A p \in Procs : InBlock(p) => IsDir(fs, proc[p].tmp_dir))
    /\ [][StepsForward]_vars
    /\ \A p \in Procs :
          (proc[p].pc = "cleanup") ~> (Finished(p) /\ ScratchGone(p))

\* a call whose rebuild failed has raised
C6_Witness ==
    \E p \in Procs :
       /\ proc[p].pc = "raised"
       /\ "remove" \in proc[p].steps
       /\ "make_archive" \notin proc[p].steps
       /\ ScratchGone(p)

\* C7: for a raw CFBundleExecutable str the call's executable name is absent
\* when the value is empty, `.`, `..`, holds a separator or holds `..`, and is
\* the value itself otherwise; and a call that is at, or has done, a rename,
\* copy or chmod on the executable's path has a name that passed the four
\* checks, so that path and the .hooked path are direct children of the bundle.
C7_Sanitization ==
    \A p \in Procs :
       LET l == proc[p]
           raw == l.plist_data[ExecutableKey].v
       IN
       /\ (Located(p) /\ DeclaresString(l)) =>
             /\ l.executable = (IF FailsChecks(raw) THEN <<>> ELSE raw)
             /\ FailsChecks(raw) =>
                   /\ l.steps \cap (BundleSteps \ {"extract"}) = {}
                   /\ l.err = "none"
       /\ (l.pc \in {"patch_plist", "move", "copy_main", "copy_mussel", "chmod_main",
                     "chmod_mussel", "remove", "make_archive", "move_zip"}
           \/ l.steps \cap {"move", "copy_main", "chmod_main"} # {}) =>
             /\ ~FailsChecks(l.executable)
             /\ DirName(PathJoin(l.bundle, l.executable)) = l.bundle
             /\ DirName(PathJoin(l.bundle, l.executable \o HookedSuffix)) = l.bundle

\* a call has returned without a write on metadata naming ../etc/passwd
C7_Witness ==
    \E p \in Procs :
       LET l == proc[p] IN
       /\ l.pc = "returned"
       /\ DeclaresString(l)
       /\ l.plist_data[ExecutableKey].v =
             <<".", ".", Sep, "e", "t", "c", Sep, "p", "a", "s", "s", "w", "d">>
       /\ l.executable = <<>>
       /\ NodeAt(fs, l.path) = l.given

\* C10: after one or more successful calls on the archive, <bundle>/<name>.hooked
\* holds the bytes the application's executable had before the first call.
C10_OriginalPreserved ==
    \A p \in Procs :
       LET l == proc[p]
           b == BaseName(l.bundle)
       IN
       (l.pc = "returned" /\ "move_zip" \in l.steps /\ IsZip(NodeAt(fs, l.path))) =>
          MemberData(fs[l.path].data, InBundle(b, l.executable \o HookedSuffix))
             = MemberData(input[l.path].data, InBundle(b, l.executable))

\* leaving a `with` block always runs the context manager's exit
FairSpec == Spec /\ \A p \in Procs : WF_vars(Cleanup(p))

----------------------------------------------------------------------------
(* Hook.patch_plist called on its own: tag (revert=False), untag (revert=True) *)

TypedFields ==
    [k \in {"CFBundleName", "CFBundleVersion", "UIStatusBarHidden", "Icon", "Nested"} |->
        CASE k = "CFBundleName" -> StrVal(<<"X">>)
          [] k = "CFBundleVersion" -> IntVal(<<"5">>)
          [] k = "UIStatusBarHidden" -> [ty |-> "boolean", v |-> <<"1">>]
          [] k = "Icon" -> [ty |-> "data", v |-> <<"i">>]
          [] k = "Nested" -> [ty |-> "dict", v |-> <<"k">>]]

Descriptors ==
    {PlistData(fmt, fields) :
        fmt \in {"xml", "binary"},
        fields \in UNION {{[k \in keys |-> TypedFields[k]]}
                          \cup {SetItem([k \in keys |-> TypedFields[k]],
                                        SignatureKey, sig) :
                                   sig \in OldSignatures \cup {StrVal(EndpointTag)}} :
                          keys \in {{}, {"CFBundleName"},
                                    {"CFBundleName", "CFBundleVersion", "UIStatusBarHidden"},
                                    DOMAIN TypedFields}}}
    \cup {Bytes("JUNK")}

InitTagger ==
    /\ \E descriptor \in Descriptors :
          fs = Put(Put(<<>>, <<Sep>>, Dir), PlistPath, File(descriptor, DefaultMode))
    /\ hash \in {<<>>, EndpointTag}
    /\ proc = [p \in Procs |-> Idle(OtherPath, 0)]
    /\ input = fs
    /\ calls = <<>>

CallPatchPlist(revert) ==
    /\ Len(calls) < MaxCalls
    /\ \E fault \in {"none", "read", "write"} :
          LET r == PatchPlistIO(fault, fs, PlistPath, hash, revert) IN
          /\ fs' = r.fs
          /\ calls' = Append(calls, [revert |-> revert, err |-> r.err,
                                     after |-> r.fs[PlistPath].data])
    /\ UNCHANGED <<hash, proc, input>>

Tag == CallPatchPlist(FALSE)

Untag == CallPatchPlist(TRUE)

NextTagger == Tag \/ Untag

SpecTagger == InitTagger /\ [][NextTagger]_vars

\* C8: after a sequence of successful tag and untag calls on a descriptor,
\* CFBundleSignature is the endpoint tag if the last call was tag and "????"
\* if it was untag, whatever it was before; the descriptor has the fields it
\* had before the first call, each other than the signature with its value;
\* and a tag after a tag leaves the descriptor the first tag left.
C8_TaggerOverwrite ==
    LET n == Len(calls)
        before == input[PlistPath].data.fields
        now == fs[PlistPath].data
    IN  (n >= 1 /\ \A i \in 1..n : calls[i].err = "none") =>
           /\ now.t = "plist"
           /\ DOMAIN now.fields = DOMAIN before \cup {SignatureKey}
           /\ now.fields[SignatureKey] =
                 (IF calls[n].revert THEN StrVal(Placeholder) ELSE StrVal(hash))
           /\ \A k \in DOMAIN before \ {SignatureKey} : now.fields[k] = before[k]
           /\ \A i \in 2..n :
                 (~calls[i].revert /\ ~calls[i - 1].revert) =>
                    calls[i].after = calls[i - 1].after

\* untag, tag, tag have succeeded on a binary descriptor with all the typed
\* fields and another signature
C8_Witness ==
    /\ Len(calls) = 3
    /\ \A i \in 1..3 : calls[i].err = "none"
    /\ calls[1].revert /\ ~calls[2].revert /\ ~calls[3].revert
    /\ hash = EndpointTag
    /\ input[PlistPath].data =
          PlistData("binary", SetItem(TypedFields, SignatureKey, StrVal(<<"O", "L", "D">>)))

----------------------------------------------------------------------------
(* Two patch_ipa calls at once, on two different archive paths *)

ConcPaths == {ArchivePath, ArchivePath \o ZipSuffix, OtherPath}

ConcArchives ==
    LET top == <<FileEntry(ArtworkName, Bytes("ART")), DirEntry(PayloadName)>>
    IN  {ZipData(top),
         ZipData(top \o BundleEntries(BundleX,
                    PlistData("xml", SetItem(NameField, ExecutableKey, StrVal(MainName))),
                    Bytes("ORIG")))}

InitConc ==
    /\ \E paths \in [Procs -> ConcPaths], archives \in [Procs -> ConcArchives] :
          /\ \A p, q \in Procs : p # q => paths[p] # paths[q]
          /\ fs = [path \in DOMAIN BaseFs \cup {paths[p] : p \in Procs} |->
                      IF path \in DOMAIN BaseFs THEN BaseFs[path]
                      ELSE File(archives[CHOOSE p \in Procs : paths[p] = path],
                                DefaultMode)]
          /\ proc = [p \in Procs |-> Idle(paths[p], 1)]
    /\ hash = EndpointTag
    /\ input = fs
    /\ calls = <<>>

SpecConc == InitConc /\ [][Next]_vars

\* C9: of two calls on different archive paths neither writes a file the
\* other reads or writes, the two never share a scratch directory, and a call
\* that ended without reaching its delete leaves its archive as it was.
C9_Independence ==
    \A p, q \in Procs :
       p # q =>
          /\ proc[p].writes \cap (proc[q].reads \cup proc[q].writes \cup {proc[q].path}) = {}
          /\ (InBlock(p) /\ InBlock(q)) => proc[p].tmp_dir # proc[q].tmp_dir
          /\ (Finished(p) /\ "remove" \notin proc[p].steps) =>
                NodeAt(fs, proc[p].path) = input[proc[p].path]

====
